---- MODULE Spec2Model ----
(***************************************************************************)
(* Segmented Sieve of Atkin (atkin_sieve.py).                              *)
(*                                                                         *)
(* The interpreter's call stack is modelled as a sequence of frames, one   *)
(* per live invocation of atkin_sieve2.  Every frame carries the locals of *)
(* atkin_sieve2 and a position (pc).  One action models one statement      *)
(* group of the function: the argument checks, the allocation, one (x, y)  *)
(* iteration of the scan, the bootstrap decision, one iteration of the     *)
(* elimination loop, and the return.                                       *)
(***************************************************************************)
EXTENDS Integers, Sequences, FiniteSets

\* ---------------------------------------------------------------- bounds
\* Largest value used for min_prime / max_prime by the callers.
MaxArg == 64
\* Most negative value used for min_prime / max_prime is -MaxNeg.
MaxNeg == 2
\* Cap on the number of nested frames explored.
MaxDepth == 5

VARIABLES
    entry,      \* which entry point the caller uses
    args,       \* the caller's arguments [min_prime, max_prime]
    stack,      \* live frames of atkin_sieve2, the innermost last
    outcome,    \* what the top-level call produced
    accessed    \* indices of is_prime used by the last step

vars == <<entry, args, stack, outcome, accessed>>

\* ------------------------------------------------------------- utilities
Min2(a, b) == IF a < b THEN a ELSE b
Max2(a, b) == IF a > b THEN a ELSE b

Top(s) == s[Len(s)]
Pop(s) == SubSeq(s, 1, Len(s) - 1)
SetTop(s, f) == [s EXCEPT ![Len(s)] = f]

NoAccess == [op |-> "none", idx |-> {}, len |-> 0]
NoOutcome == [kind |-> "none", value |-> <<>>]

\* int(math.sqrt(n)) for n >= 0
ISqrt(n) == CHOOSE r \in 0..n : r * r <= n /\ (r + 1) * (r + 1) > n

\* Python list indexing: a negative index counts from the end of the list.
PyIndex(i, len) == IF i < 0 THEN i + len ELSE i
PyIndexValid(i, len) == PyIndex(i, len) >= 0 /\ PyIndex(i, len) < len

ListGet(list, i) == list[PyIndex(i, Len(list)) + 1]
ListSet(list, i, v) == [list EXCEPT ![PyIndex(i, Len(list)) + 1] = v]

\* ------------------------------------------------------------ the frames
NewFrame(min_prime, max_prime) ==
    [pc |-> "entry", min_prime |-> min_prime, max_prime |-> max_prime,
     is_prime |-> <<>>, factor |-> 0, x |-> 0, y |-> 0,
     missing_primes |-> <<>>]

\* atkin_sieve(max_prime): the frame of the atkin_sieve2 call it makes.
\* Variant: the lower bound follows max_prime instead of stopping at 0.
atkin_sieve_SameMin(max_prime) == NewFrame(max_prime, max_prime)

atkin_sieve(max_prime) == NewFrame(Min2(max_prime, 0), max_prime)

\* atkin_sieve2(min_prime, max_prime): the frame on entry.
atkin_sieve2(min_prime, max_prime) == NewFrame(min_prime, max_prime)

\* --------------------------------------------- argument checks (115-119)
\* Variant: an interval of one element is rejected too.
InvalidRange_Inclusive(min_prime, max_prime) == min_prime >= max_prime

InvalidRange(min_prime, max_prime) == min_prime > max_prime

NothingToSieve(max_prime) == max_prime < 2

\* --------------------------------------------------- allocation (121-131)
EffectiveMin(min_prime) == Max2(2, min_prime)

\* The indices written while 2 and 3 are marked prime.
InitIndices(min_prime, max_prime) ==
    (IF min_prime = 2 THEN {0} ELSE {})
    \cup (IF min_prime <= 3 /\ 3 <= max_prime THEN {3 - min_prime} ELSE {})

InitFlags(min_prime, max_prime) ==
    LET blank == [i \in 1..(max_prime - min_prime + 1) |-> FALSE]
        two == IF min_prime = 2 THEN ListSet(blank, 0, TRUE) ELSE blank
    IN  IF min_prime <= 3 /\ 3 <= max_prime
        THEN ListSet(two, 3 - min_prime, TRUE)
        ELSE two

Factor(max_prime) == ISqrt(max_prime) + 1

\* ---------------------------------------------------------- scan (133-152)
Form3xPlus(x, y) == 3 * (x * x) + (y * y)
Form3xMinus(x, y) == Form3xPlus(x, y) - 2 * (y * y)
Form4xPlus(x, y) == Form3xMinus(x, y) + (x * x) + 2 * (y * y)

\* Variant: the lower end of the range is not tested.
Hit3xPlus_NoLower(x, y, min_prime, max_prime) ==
    LET n == Form3xPlus(x, y)
    IN  n <= max_prime /\ n % 12 = 7

Hit3xPlus(x, y, min_prime, max_prime) ==
    LET n == Form3xPlus(x, y)
    IN  min_prime <= n /\ n <= max_prime /\ n % 12 = 7

\* Variant: solutions with x <= y are counted as well.
Hit3xMinus_NoOrder(x, y, min_prime, max_prime) ==
    LET n == Form3xMinus(x, y)
    IN  min_prime <= n /\ n <= max_prime /\ n % 12 = 11

Hit3xMinus(x, y, min_prime, max_prime) ==
    LET n == Form3xMinus(x, y)
    IN  x > y /\ min_prime <= n /\ n <= max_prime /\ n % 12 = 11

Hit4xPlus(x, y, min_prime, max_prime) ==
    LET n == Form4xPlus(x, y)
    IN  min_prime <= n /\ n <= max_prime /\ n % 12 \in {1, 5}

\* The indices toggled by the iteration (x, y), in the order of the code.
ScanIndices(x, y, min_prime, max_prime) ==
    (IF Hit3xPlus(x, y, min_prime, max_prime)
     THEN <<Form3xPlus(x, y) - min_prime>> ELSE <<>>)
    \o (IF Hit3xMinus(x, y, min_prime, max_prime)
        THEN <<Form3xMinus(x, y) - min_prime>> ELSE <<>>)
    \o (IF Hit4xPlus(x, y, min_prime, max_prime)
        THEN <<Form4xPlus(x, y) - min_prime>> ELSE <<>>)

RECURSIVE ToggleAll(_, _)
ToggleAll(list, idxs) ==
    IF idxs = <<>> THEN list
    ELSE ToggleAll(ListSet(list, Head(idxs), ~ListGet(list, Head(idxs))),
                   Tail(idxs))

\* ----------------------------------------------------- bootstrap (154-159)
\* The argument of the recursive atkin_sieve call, <<>> when none is made.
\* Variant: above factor the sub-sieve runs up to min_prime.
BootstrapCall_UpToMin(min_prime, factor) ==
    IF 0 < min_prime /\ min_prime <= factor THEN <<min_prime - 1>>
    ELSE IF min_prime > factor THEN <<min_prime>>
    ELSE <<>>

BootstrapCall(min_prime, factor) ==
    IF 0 < min_prime /\ min_prime <= factor THEN <<min_prime - 1>>
    ELSE IF min_prime > factor THEN <<factor>>
    ELSE <<>>

\* The position after the bootstrap: range(5, factor) may be empty.
AfterBootstrap(f) ==
    [f EXCEPT !.x = 5, !.pc = IF 5 < f.factor THEN "elim" ELSE "collect"]

\* --------------------------------------------------- elimination (161-180)
SeqMember(v, s) == \E i \in 1..Len(s) : s[i] = v

\* Variant: the largest missing prime itself is not looked up.
UsesMissing_Strict(f) ==
    f.missing_primes # <<>> /\ f.x < f.missing_primes[Len(f.missing_primes)]

UsesMissing(f) ==
    f.missing_primes # <<>> /\ f.x <= f.missing_primes[Len(f.missing_primes)]

UsesLocal(f) ==
    ~UsesMissing(f)
    /\ 0 <= f.x - f.min_prime /\ f.x - f.min_prime < Len(f.is_prime)

\* Variant: missing_primes is never consulted.
XIsPrime_LocalOnly(f) ==
    IF 0 <= f.x - f.min_prime /\ f.x - f.min_prime < Len(f.is_prime)
    THEN ListGet(f.is_prime, f.x - f.min_prime)
    ELSE FALSE

XIsPrime(f) ==
    IF UsesMissing(f) THEN SeqMember(f.x, f.missing_primes)
    ELSE IF UsesLocal(f) THEN ListGet(f.is_prime, f.x - f.min_prime)
    ELSE FALSE

\* Variant: the start is not moved up to a multiple of x_squared.
LoopStart_Unaligned(min_prime, x_squared) ==
    IF min_prime > x_squared THEN min_prime ELSE x_squared

LoopStart(min_prime, x_squared) ==
    IF min_prime > x_squared
    THEN (IF min_prime % x_squared # 0
          THEN min_prime + (x_squared - (min_prime % x_squared))
          ELSE min_prime)
    ELSE x_squared

\* range(loop_start, max_prime + 1, x_squared)
Multiples(loop_start, max_prime, x_squared) ==
    {n \in loop_start..max_prime : (n - loop_start) % x_squared = 0}

ClearIndices(f) ==
    IF XIsPrime(f)
    THEN {n - f.min_prime :
            n \in Multiples(LoopStart(f.min_prime, f.x * f.x), f.max_prime,
                            f.x * f.x)}
    ELSE {}

ReadIndices(f) == IF UsesLocal(f) THEN {f.x - f.min_prime} ELSE {}

ClearAll(list, idxs) ==
    [i \in 1..Len(list) |->
        IF \E k \in idxs : PyIndex(k, Len(list)) + 1 = i
        THEN FALSE ELSE list[i]]

\* ----------------------------------------------------------- result (182)
RECURSIVE CollectFrom(_, _, _)
CollectFrom(is_prime, min_prime, index) ==
    IF index >= Len(is_prime) THEN <<>>
    ELSE (IF is_prime[index + 1] THEN <<index + min_prime>> ELSE <<>>)
         \o CollectFrom(is_prime, min_prime, index + 1)

\* Variant: the flags are enumerated from the end.
Collect_Descending(is_prime, min_prime) ==
    LET asc == CollectFrom(is_prime, min_prime, 0)
    IN  [i \in 1..Len(asc) |-> asc[Len(asc) + 1 - i]]

Collect(is_prime, min_prime) == CollectFrom(is_prime, min_prime, 0)

\* ------------------------------------------------- effects of the steps
\* Every effect maps a stack to the next stack, outcome and index record.
Effect(s, o, a) == [stack |-> s, outcome |-> o, accessed |-> a]

\* An exception unwinds every frame: no caller has a handler.
Raise(kind, a) == Effect(<<>>, [kind |-> kind, value |-> <<>>], a)

\* A value returned by the top frame reaches the caller's missing_primes,
\* or the top-level caller.
ReturnValue(s, v) ==
    IF Len(s) = 1
    THEN Effect(<<>>, [kind |-> "return", value |-> v], NoAccess)
    ELSE LET caller == s[Len(s) - 1]
         IN  Effect(SetTop(Pop(s),
                           AfterBootstrap([caller EXCEPT !.missing_primes = v])),
                    NoOutcome, NoAccess)

AllocateEffect(s) ==
    LET f == Top(s)
        m == EffectiveMin(f.min_prime)
    IN  Effect(SetTop(s, [f EXCEPT !.pc = "scan", !.min_prime = m,
                                   !.is_prime = InitFlags(m, f.max_prime),
                                   !.factor = Factor(f.max_prime),
                                   !.x = 1, !.y = 1]),
               NoOutcome,
               [op |-> "init", idx |-> InitIndices(m, f.max_prime),
                len |-> f.max_prime - m + 1])

ScanEffect(s) ==
    LET f == Top(s)
        idxs == ScanIndices(f.x, f.y, f.min_prime, f.max_prime)
        used == {idxs[i] : i \in 1..Len(idxs)}
        lastY == f.y + 1 >= f.factor
        lastX == lastY /\ f.x + 1 >= f.factor
    IN  IF \E i \in used : ~PyIndexValid(i, Len(f.is_prime))
        THEN Raise("IndexError",
                   [op |-> "scan", idx |-> used, len |-> Len(f.is_prime)])
        ELSE Effect(SetTop(s, [f EXCEPT
                        !.is_prime = ToggleAll(f.is_prime, idxs),
                        !.y = IF lastY THEN 1 ELSE f.y + 1,
                        !.x = IF lastY THEN f.x + 1 ELSE f.x,
                        !.pc = IF lastX THEN "bootstrap" ELSE "scan"]),
                    NoOutcome,
                    [op |-> "scan", idx |-> used, len |-> Len(f.is_prime)])

BootstrapEffect(s) ==
    LET f == Top(s)
        call == BootstrapCall(f.min_prime, f.factor)
    IN  IF call = <<>>
        THEN Effect(SetTop(s, AfterBootstrap(f)), NoOutcome, NoAccess)
        ELSE Effect(Append(SetTop(s, [f EXCEPT !.pc = "await"]),
                           atkin_sieve(call[1])),
                    NoOutcome, NoAccess)

EliminateEffect(s) ==
    LET f == Top(s)
        used == ReadIndices(f) \cup ClearIndices(f)
    IN  IF \E i \in used : ~PyIndexValid(i, Len(f.is_prime))
        THEN Raise("IndexError",
                   [op |-> "elim", idx |-> used, len |-> Len(f.is_prime)])
        ELSE Effect(SetTop(s, [f EXCEPT
                        !.is_prime = ClearAll(f.is_prime, ClearIndices(f)),
                        !.x = f.x + 1,
                        !.pc = IF f.x + 1 < f.factor THEN "elim"
                               ELSE "collect"]),
                    NoOutcome,
                    [op |-> "elim", idx |-> used, len |-> Len(f.is_prime)])

ReturnEffect(s) ==
    ReturnValue(s, Collect(Top(s).is_prime, Top(s).min_prime))

\* The step the interpreter takes next in the top frame.
StepEffect(s) ==
    LET f == Top(s)
    IN  CASE f.pc = "entry" ->
                IF InvalidRange(f.min_prime, f.max_prime)
                THEN Raise("ValueError", NoAccess)
                ELSE IF NothingToSieve(f.max_prime) THEN ReturnValue(s, <<>>)
                ELSE AllocateEffect(s)
          [] f.pc = "scan" -> ScanEffect(s)
          [] f.pc = "bootstrap" -> BootstrapEffect(s)
          [] f.pc = "elim" -> EliminateEffect(s)
          [] f.pc = "collect" -> ReturnEffect(s)

\* The outcome of running a call to completion.
RECURSIVE RunStack(_)
RunStack(s) ==
    LET e == StepEffect(s)
    IN  IF e.stack = <<>> THEN e.outcome ELSE RunStack(e.stack)

Run(frame) == RunStack(<<frame>>)

\* ------------------------------------------------------------ the machine
Idle == stack = <<>> /\ outcome.kind = "none"
Done == stack = <<>> /\ outcome.kind # "none"

Apply(e) ==
    /\ stack' = e.stack
    /\ outcome' = e.outcome
    /\ accessed' = e.accessed
    /\ UNCHANGED <<entry, args>>

Args == (0 - MaxNeg)..MaxArg

Init ==
    /\ entry \in {"atkin_sieve", "atkin_sieve2"}
    /\ args \in [min_prime : Args, max_prime : Args]
    /\ entry = "atkin_sieve" => args.min_prime = 0
    /\ stack = <<>>
    /\ outcome = NoOutcome
    /\ accessed = NoAccess

CallAtkinSieve ==
    /\ Idle /\ entry = "atkin_sieve"
    /\ Apply(Effect(<<atkin_sieve(args.max_prime)>>, NoOutcome, NoAccess))

CallAtkinSieve2 ==
    /\ Idle /\ entry = "atkin_sieve2"
    /\ Apply(Effect(<<atkin_sieve2(args.min_prime, args.max_prime)>>,
                    NoOutcome, NoAccess))

RaiseInvalidRange ==
    /\ stack # <<>> /\ Top(stack).pc = "entry"
    /\ InvalidRange(Top(stack).min_prime, Top(stack).max_prime)
    /\ Apply(Raise("ValueError", NoAccess))

ReturnEmpty ==
    /\ stack # <<>> /\ Top(stack).pc = "entry"
    /\ ~InvalidRange(Top(stack).min_prime, Top(stack).max_prime)
    /\ NothingToSieve(Top(stack).max_prime)
    /\ Apply(ReturnValue(stack, <<>>))

Allocate ==
    /\ stack # <<>> /\ Top(stack).pc = "entry"
    /\ ~InvalidRange(Top(stack).min_prime, Top(stack).max_prime)
    /\ ~NothingToSieve(Top(stack).max_prime)
    /\ Apply(AllocateEffect(stack))

Scan ==
    /\ stack # <<>> /\ Top(stack).pc = "scan"
    /\ Apply(ScanEffect(stack))

Bootstrap ==
    /\ stack # <<>> /\ Top(stack).pc = "bootstrap"
    /\ Len(stack) < MaxDepth
    /\ Apply(BootstrapEffect(stack))

Eliminate ==
    /\ stack # <<>> /\ Top(stack).pc = "elim"
    /\ Apply(EliminateEffect(stack))

Return ==
    /\ stack # <<>> /\ Top(stack).pc = "collect"
    /\ Apply(ReturnEffect(stack))

Next ==
    \/ CallAtkinSieve
    \/ CallAtkinSieve2
    \/ RaiseInvalidRange
    \/ ReturnEmpty
    \/ Allocate
    \/ Scan
    \/ Bootstrap
    \/ Eliminate
    \/ Return

Spec == Init /\ [][Next]_vars

\* The interpreter runs the call to completion: a step that can be taken is
\* eventually taken.
FairSpec == Spec /\ WF_vars(Next)

\* ============================================================ properties
\* Trial division, the reference the results are compared with.
IsPrimeRef(n) == n >= 2 /\ \A d \in 2..(n - 1) : n % d # 0

Elems(s) == {s[i] : i \in 1..Len(s)}

\* The top-level call was atkin_sieve2 and has returned a list.
Returned2 == Done /\ entry = "atkin_sieve2" /\ outcome.kind = "return"

PrimesIn(lo, hi) == {p \in lo..hi : IsPrimeRef(p)}

\* The flag the frame f holds for the integer n.
FlagOf(f, n) == f.is_prime[n - f.min_prime + 1]

InFrameRange(f, n) == f.min_prime <= n /\ n <= f.max_prime

\* C1: every value of the list atkin_sieve2 returns is prime by trial
\* division and lies in [min_prime, max_prime].
C1_Soundness ==
    Returned2 =>
        \A i \in 1..Len(outcome.value) :
            /\ IsPrimeRef(outcome.value[i])
            /\ args.min_prime <= outcome.value[i]
            /\ outcome.value[i] <= args.max_prime

\* A range above factor whose scan leaves the false positive 25 behind.
C1_Witness ==
    /\ Returned2
    /\ args.min_prime = 20 /\ args.max_prime = 30
    /\ outcome.value = <<23, 29>>

\* C2: every prime of [min_prime, max_prime] is in the returned list; the
\* first element is the smallest prime >= min_prime, the last the largest
\* prime <= max_prime, and the list is empty iff the range holds no prime.
C2_Completeness ==
    Returned2 =>
        LET v == outcome.value
            ps == PrimesIn(args.min_prime, args.max_prime)
        IN  /\ ps \subseteq Elems(v)
            /\ (v = <<>>) <=> (ps = {})
            /\ v # <<>> =>
                /\ v[1] \in ps /\ \A p \in ps : v[1] <= p
                /\ v[Len(v)] \in ps /\ \A p \in ps : p <= v[Len(v)]

\* A range that starts above 5 * 5, where the first multiple to clear is
\* found by remainder arithmetic, and that holds the prime 53.
C2_Witness ==
    /\ Returned2
    /\ args.min_prime = 28 /\ args.max_prime = 60
    /\ outcome.value = <<29, 31, 37, 41, 43, 47, 53, 59>>

\* C3: atkin_sieve2 raises ValueError iff min_prime > max_prime, it does so
\* before a flag array exists and hands back no list; every other input
\* returns a list.
C3_RaisesIffInvalid ==
    entry = "atkin_sieve2" =>
        /\ args.min_prime > args.max_prime =>
              \A i \in 1..Len(stack) :
                  stack[i].pc = "entry" /\ stack[i].is_prime = <<>>
        /\ Done => (outcome.kind = "ValueError"
                        <=> args.min_prime > args.max_prime)
        /\ Done /\ args.min_prime <= args.max_prime => outcome.kind = "return"
        /\ outcome.kind = "ValueError" => outcome.value = <<>>

C3_Witness ==
    /\ Done /\ entry = "atkin_sieve2"
    /\ outcome.kind = "ValueError"
    /\ args.min_prime = 1 /\ args.max_prime = 0

\* C4 as stated: for every N, negative ones included, atkin_sieve(N) has
\* the outcome of atkin_sieve2(min_prime=0, max_prime=N).
C4_AllN ==
    Done /\ entry = "atkin_sieve" =>
        outcome = Run(atkin_sieve2(0, args.max_prime))

\* C4 amended: for every N >= 0, atkin_sieve(N) has the outcome of
\* atkin_sieve2(min_prime=0, max_prime=N).
C4_NonNegativeN ==
    Done /\ entry = "atkin_sieve" /\ args.max_prime >= 0 =>
        outcome = Run(atkin_sieve2(0, args.max_prime))

C4_Witness ==
    /\ Done /\ entry = "atkin_sieve"
    /\ args.max_prime = 30
    /\ outcome.value = <<2, 3, 5, 7, 11, 13, 17, 19, 23, 29>>

\* C5: the list atkin_sieve2 returns is strictly ascending.
C5_StrictlyAscending ==
    Returned2 =>
        \A i \in 1..Len(outcome.value) : \A j \in 1..Len(outcome.value) :
            i < j => outcome.value[i] < outcome.value[j]

C5_Witness == Returned2 /\ Len(outcome.value) >= 5

\* Every nested call has an upper bound below its caller's.
StackDecreasing ==
    \A i \in 2..Len(stack) : stack[i].max_prime < stack[i - 1].max_prime

\* C6: every recursive call is made with a max_prime strictly smaller than
\* the caller's, the chain of nested calls stays finite, and a call with
\* min_prime <= max_prime eventually returns.
C6_Terminates ==
    /\ [](StackDecreasing /\ Len(stack) < MaxDepth)
    /\ (entry = "atkin_sieve2" /\ args.min_prime <= args.max_prime)
          => <>(Done /\ outcome.kind = "return")

\* A chain of three nested calls: the bootstrap of a bootstrap.
C6_Witness ==
    /\ Len(stack) = 3
    /\ stack[1].min_prime > stack[1].factor
    /\ stack[2].pc = "await" /\ stack[3].pc = "entry"

\* The solutions (x, y), 1 <= x, y < factor, of the form selected by n % 12.
Solutions(n, factor) ==
    LET pairs == (1..(factor - 1)) \X (1..(factor - 1))
    IN  CASE n % 12 \in {1, 5} ->
                {p \in pairs : 4 * p[1] * p[1] + p[2] * p[2] = n}
          [] n % 12 = 7 ->
                {p \in pairs : 3 * p[1] * p[1] + p[2] * p[2] = n}
          [] n % 12 = 11 ->
                {p \in pairs : 3 * p[1] * p[1] - p[2] * p[2] = n
                               /\ p[1] > p[2]}
          [] OTHER -> {}

C8_Elimination ==
    /\ (stack # <<>> /\ Top(stack).pc = "elim") =>
          /\ 5 <= Top(stack).x /\ Top(stack).x < Top(stack).factor
          /\ XIsPrime(Top(stack)) = IsPrimeRef(Top(stack).x)
    /\ (stack # <<>> /\ Top(stack).pc \in {"elim", "collect"}) =>
          \A n \in PrimesIn(Top(stack).min_prime, Top(stack).max_prime) :
              FlagOf(Top(stack), n)
    /\ (stack # <<>> /\ Top(stack).pc = "collect") =>
          LET f == Top(stack)
          IN  \A p \in PrimesIn(5, f.factor - 1) :
                  \A n \in f.min_prime..f.max_prime :
                      n % (p * p) = 0 => ~FlagOf(f, n)

\* The loop is over, 5 was found prime in missing_primes and the flags of
\* 25 and 50 are clear.
C8_Witness ==
    /\ stack # <<>> /\ Top(stack).pc = "collect"
    /\ Top(stack).missing_primes = <<2, 3, 5>>
    /\ Top(stack).min_prime = 6 /\ Top(stack).max_prime >= 50
    /\ ~FlagOf(Top(stack), 25) /\ ~FlagOf(Top(stack), 50)

\* C9: a call of atkin_sieve2 with min_prime <= 0 and max_prime >= 2 makes
\* no recursive sub-sieve call, and every decision of the elimination loop
\* is taken from the local flags.
C9_NoRecursion ==
    (entry = "atkin_sieve2" /\ args.min_prime <= 0 /\ args.max_prime >= 2) =>
        /\ Len(stack) <= 1
        /\ (stack # <<>> /\ Top(stack).pc = "elim") => UsesLocal(Top(stack))

\* C10: an allocated is_prime has max_prime - max(2, min_prime) + 1 >= 1
\* elements, and every index used on it lies in 0 .. length - 1.
C10_IndexSafety ==
    /\ \A i \in 1..Len(stack) :
          stack[i].pc # "entry" =>
              /\ Len(stack[i].is_prime) >= 1
              /\ Len(stack[i].is_prime)
                    = stack[i].max_prime - stack[i].min_prime + 1
    /\ (stack # <<>> /\ stack[1].pc # "entry" /\ entry = "atkin_sieve2") =>
          Len(stack[1].is_prime)
              = args.max_prime - Max2(2, args.min_prime) + 1
    /\ \A i \in accessed.idx : 0 <= i /\ i < accessed.len
    /\ outcome.kind # "IndexError"

\* A clear at the last element of a range that starts above 5 * 5.
C10_Witness ==
    /\ accessed.op = "elim"
    /\ stack # <<>> /\ Top(stack).min_prime = 30
    /\ accessed.idx = {20} /\ accessed.len = 21

====
